---- MODULE Spec2Model ----
(***************************************************************************)
(* Model of the XSIAM data-source health scripts:                          *)
(*   - GetDataSourceHealthTrends.py   (get_health_trends, main)            *)
(*   - CheckDataSrouceHealthDataset.py (verify_dataset_freshness,          *)
(*                                      check_health_dataset, main)        *)
(* Each script is one short-lived invocation.  The XQL engine behind       *)
(* demisto.executeCommand is the environment: its answer is drawn          *)
(* nondeterministically from a bounded set.  return_error is the platform  *)
(* call that emits an error entry and ends the script (SystemExit, which   *)
(* `except Exception` does not catch and a bare `except:` does).           *)
(*                                                                         *)
(* Numbers: avg_hours_silent and the averages are exact rationals          *)
(* [num, den] with den > 0; comparisons are by cross-multiplication.       *)
(***************************************************************************)
EXTENDS Integers, Sequences, FiniteSets

VARIABLES
    \* ---- GetDataSourceHealthTrends.py, one invocation ----
    t_pc,              \* position in get_health_trends / main
    trend_data,        \* rows returned by the query (line 40)
    dataset_trends,    \* insertion-ordered dict: Seq of [name, trends]
    t_idx,             \* number of dict items the loop of line 55 has taken
    recent_avg,        \* local of line 58, as last computed
    older_avg,         \* local of line 59, as last computed
    trending_worse,    \* list of line 43
    trending_better,   \* list of line 44
    t_result,          \* what the invocation handed to the platform
    \* ---- CheckDataSrouceHealthDataset.py, one invocation ----
    h_pc,              \* position in main
    threshold_hours,   \* line 95
    freshness,         \* line 98
    table,             \* custom.data_source_health rows of the last hour
    issued,            \* queries handed to executeCommand so far
    fresh_resp,        \* what executeCommand answered to the freshness query
    silent_resp,       \* how executeCommand answered the silent-source query
    query_results,     \* line 35
    silent_datasets,   \* line 104
    h_result           \* what the invocation handed to the platform

tvars == <<t_pc, trend_data, dataset_trends, t_idx, recent_avg, older_avg,
           trending_worse, trending_better, t_result>>
hvars == <<h_pc, threshold_hours, freshness, table, issued, fresh_resp,
           silent_resp, query_results, silent_datasets, h_result>>
vars == <<tvars, hvars>>

(***************************************************************************)
(* Bounds of the model.                                                    *)
(***************************************************************************)
MaxRows == 6         \* bucket rows returned by the trends query
MaxRecords == 2      \* health records in the one-hour window

Names == {"a", "b"}
Vals == {0, 1, 3}    \* avg_hours_silent of a bucket

Min(x, y) == IF x < y THEN x ELSE y
Max(x, y) == IF x > y THEN x ELSE y

(***************************************************************************)
(* Python sequence helpers.                                                *)
(***************************************************************************)
\* s[i:] for a possibly negative i
PySliceFrom(s, i) ==
    LET start == IF i < 0 THEN Max(0, Len(s) + i) ELSE Min(i, Len(s))
    IN  SubSeq(s, start + 1, Len(s))

\* s[:j] for a possibly negative j
PySliceTo(s, j) ==
    LET stop == IF j < 0 THEN Max(0, Len(s) + j) ELSE Min(j, Len(s))
    IN  SubSeq(s, 1, stop)

RECURSIVE PySum(_)
PySum(s) == IF s = <<>> THEN 0 ELSE s[1] + PySum(Tail(s))

(***************************************************************************)
(* Exact rationals standing for Python floats.                             *)
(***************************************************************************)
Rat(n, d) == [num |-> n, den |-> d]
RatGT(x, y) == x.num * y.den > y.num * x.den
RatLT(x, y) == x.num * y.den < y.num * x.den
RatMul(x, y) == Rat(x.num * y.num, x.den * y.den)
RatSub(x, y) == Rat(x.num * y.den - y.num * x.den, x.den * y.den)
RatIsZero(x) == x.num = 0
\* x / y for y # 0, keeping the denominator positive
RatDiv(x, y) ==
    IF y.num > 0 THEN Rat(x.num * y.den, x.den * y.num)
    ELSE Rat(-(x.num * y.den), x.den * (-y.num))

\* round(x, nd) with scale = 10^nd: the nearest multiple of 1/scale,
\* a half going to the even neighbour
PyRound(x, scale) ==
    LET n == x.num * scale
        q == n \div x.den
        r == n - q * x.den
    IN  IF 2 * r < x.den THEN q
        ELSE IF 2 * r > x.den THEN q + 1
        ELSE IF q % 2 = 0 THEN q ELSE q + 1

NoRat == Rat(0, 1)

(***************************************************************************)
(* GetDataSourceHealthTrends.py                                            *)
(***************************************************************************)
TrendRow(n, v) == [dataset_name |-> n, avg_hours_silent |-> v]
TrendRows == {TrendRow(n, v) : n \in Names, v \in Vals}

\* the spec's proxy_logs scenario: six hourly buckets 1,1,1,1,8,9
ProxyLogs ==
    << TrendRow("proxy_logs", 1), TrendRow("proxy_logs", 1),
       TrendRow("proxy_logs", 1), TrendRow("proxy_logs", 1),
       TrendRow("proxy_logs", 8), TrendRow("proxy_logs", 9) >>

\* bucket rows the query can return, in ascending hour_bucket order
TrendInputs ==
    UNION {[1..k -> TrendRows] : k \in 0..MaxRows} \cup {ProxyLogs}

\* what executeCommand can do besides returning rows: raise, return an empty
\* list, return an error-typed entry
UpstreamFailures == {"throws", "empty", "error"}

NoTrendResult ==
    [kind |-> "none", message |-> "", raw_trends |-> <<>>,
     trending_worse |-> <<>>, trending_better |-> <<>>, dataset_count |-> 0]

\* return_error(message): an error entry, and the script ends
TrendError(msg) == [NoTrendResult EXCEPT !.kind = "error", !.message = msg]

\* lines 47-52: dataset_trends[ds_name].append(row), keys in first-seen order
RECURSIVE GroupRows(_, _)
GroupRows(rows, acc) ==
    IF rows = <<>> THEN acc
    ELSE LET row == Head(rows)
             ds_name == row.dataset_name
             known == \E i \in 1..Len(acc) : acc[i].name = ds_name
             acc2 == IF known
                     THEN [i \in 1..Len(acc) |->
                             IF acc[i].name = ds_name
                             THEN [acc[i] EXCEPT !.trends = Append(@, row)]
                             ELSE acc[i]]
                     ELSE Append(acc, [name |-> ds_name, trends |-> <<row>>])
         IN  GroupRows(Tail(rows), acc2)

SilenceOf(trends) == [i \in 1..Len(trends) |-> trends[i].avg_hours_silent]

\* line 58: trends[-3:]
RecentBucketsShort(trends) == PySliceFrom(trends, -2)
RecentBuckets(trends) == PySliceFrom(trends, -3)
\* line 59: trends[:-3]
OlderBuckets(trends) == PySliceTo(trends, -3)

\* line 58
RecentAvg(trends) ==
    Rat(PySum(SilenceOf(RecentBuckets(trends))), Min(3, Len(trends)))
\* line 59
OlderAvg(trends) ==
    Rat(PySum(SilenceOf(OlderBuckets(trends))), Max(1, Len(trends) - 3))

\* line 61: recent_avg > older_avg * 1.5
IsWorse(r, o) == RatGT(r, RatMul(o, Rat(3, 2)))
\* line 68: recent_avg < older_avg * 0.5
IsBetter(r, o) == RatLT(r, RatMul(o, Rat(1, 2)))

\* lines 66 and 73: the division raises ZeroDivisionError when older_avg is 0
ChangeRaises(r, o) == RatIsZero(o)
ChangePercent(r, o) ==
    PyRound(RatMul(RatDiv(RatSub(r, o), o), Rat(100, 1)), 10)

\* lines 62-67 and 69-74; recent/older in hundredths, change_percent in tenths
TrendEntry(ds_name, r, o) ==
    [dataset |-> ds_name,
     recent_avg_silent |-> PyRound(r, 100),
     older_avg_silent |-> PyRound(o, 100),
     change_percent |-> ChangePercent(r, o)]

InitTrends ==
    /\ t_pc = "start"
    /\ trend_data = <<>>
    /\ dataset_trends = <<>>
    /\ t_idx = 0
    /\ recent_avg = NoRat
    /\ older_avg = NoRat
    /\ trending_worse = <<>>
    /\ trending_better = <<>>
    /\ t_result = NoTrendResult

\* lines 32-40, the query answers with rows
QueryTrends ==
    /\ t_pc = "start"
    /\ \E rows \in TrendInputs : trend_data' = rows
    /\ t_pc' = "group"
    /\ UNCHANGED <<dataset_trends, t_idx, recent_avg, older_avg,
                   trending_worse, trending_better, t_result, hvars>>

\* lines 32-38 and 83-84, the query fails.  An error-typed entry reaches
\* return_error on line 38; a raised exception, or the IndexError of
\* results[0] on an empty list, reaches return_error on line 84.
QueryTrendsFails ==
    /\ t_pc = "start"
    /\ \E f \in UpstreamFailures :
          t_result' = TrendError(IF f = "error" THEN "Failed to get trends"
                                 ELSE "Error analyzing trends")
    /\ t_pc' = "done"
    /\ UNCHANGED <<trend_data, dataset_trends, t_idx, recent_avg, older_avg,
                   trending_worse, trending_better, hvars>>

\* lines 43-52
GroupByDataset ==
    /\ t_pc = "group"
    /\ dataset_trends' = GroupRows(trend_data, <<>>)
    /\ t_pc' = "analyze"
    /\ UNCHANGED <<trend_data, t_idx, recent_avg, older_avg,
                   trending_worse, trending_better, t_result, hvars>>

\* lines 55-74, one iteration of the loop; lines 83-84 when it raises
AnalyzeDataset ==
    /\ t_pc = "analyze"
    /\ t_idx < Len(dataset_trends)
    /\ LET ds_name == dataset_trends[t_idx + 1].name
           trends == dataset_trends[t_idx + 1].trends
           r == RecentAvg(trends)
           o == OlderAvg(trends)
       IN  /\ t_idx' = t_idx + 1
           /\ IF Len(trends) >= 2
              THEN /\ recent_avg' = r
                   /\ older_avg' = o
                   /\ IF IsWorse(r, o)
                      THEN IF ChangeRaises(r, o)
                           THEN /\ t_result' = TrendError("Error analyzing trends")
                                /\ t_pc' = "done"
                                /\ UNCHANGED <<trending_worse, trending_better>>
                           ELSE /\ trending_worse' =
                                      Append(trending_worse, TrendEntry(ds_name, r, o))
                                /\ UNCHANGED <<trending_better, t_result, t_pc>>
                      ELSE IF IsBetter(r, o)
                      THEN IF ChangeRaises(r, o)
                           THEN /\ t_result' = TrendError("Error analyzing trends")
                                /\ t_pc' = "done"
                                /\ UNCHANGED <<trending_worse, trending_better>>
                           ELSE /\ trending_better' =
                                      Append(trending_better, TrendEntry(ds_name, r, o))
                                /\ UNCHANGED <<trending_worse, t_result, t_pc>>
                      ELSE UNCHANGED <<trending_worse, trending_better,
                                       t_result, t_pc>>
              ELSE UNCHANGED <<recent_avg, older_avg, trending_worse,
                               trending_better, t_result, t_pc>>
    /\ UNCHANGED <<trend_data, dataset_trends, hvars>>

\* lines 76-81, then main lines 92-114: return_outputs(HealthTrends)
ReturnTrends ==
    /\ t_pc = "analyze"
    /\ t_idx = Len(dataset_trends)
    /\ t_result' = [kind |-> "outputs", message |-> "",
                    raw_trends |-> trend_data,
                    trending_worse |-> trending_worse,
                    trending_better |-> trending_better,
                    dataset_count |-> Len(dataset_trends)]
    /\ t_pc' = "done"
    /\ UNCHANGED <<trend_data, dataset_trends, t_idx, recent_avg, older_avg,
                   trending_worse, trending_better, hvars>>

(***************************************************************************)
(* CheckDataSrouceHealthDataset.py                                         *)
(***************************************************************************)
\* A JSON value of a row: a key that is absent, a null, a number, a string.
Absent == [t |-> "absent", n |-> 0, s |-> ""]
None == [t |-> "null", n |-> 0, s |-> ""]
Num(n) == [t |-> "num", n |-> n, s |-> ""]
Str(s) == [t |-> "str", n |-> 0, s |-> s]

\* row.get(key, default): the default only when the key is absent; a key
\* that is present with a null gives None
PyGet(v, default) == IF v.t = "absent" THEN default ELSE v

\* datetime.fromtimestamp(x).strftime('%Y-%m-%d %H:%M:%S UTC'):
\* TypeError unless x is a number
StrftimeRaises(v) == v.t # "num"
Strftime(v) == [t |-> "time", n |-> v.n, s |-> "%Y-%m-%d %H:%M:%S UTC"]

HealthRecord(name, hs, seen, sev, cnt, st, chk) ==
    [dataset_name |-> name, hours_silent |-> hs, last_seen_time |-> seen,
     severity |-> sev, event_count_last_hour |-> cnt, status |-> st,
     check_time |-> chk]

HoursSilent == {1, 2}
\* the shapes a row of the dataset comes in: every field set; the optional
\* fields absent; last_seen_time null; severity null
HealthRecords ==
    UNION {{ HealthRecord(Str(d), Num(h), Num(3600), Str("High"), Num(0),
                          Str("Silent"), Num(7200)),
             HealthRecord(Str(d), Num(h), Absent, Absent, Absent, Absent, Absent),
             HealthRecord(Str(d), Num(h), None, Str("High"), Num(0),
                          Str("Silent"), Num(7200)),
             HealthRecord(Str(d), Num(h), Num(3600), None, Num(0),
                          Str("Silent"), Num(7200)) }
           : d \in Names, h \in HoursSilent}

HealthTables == UNION {[1..k -> HealthRecords] : k \in 0..MaxRecords}

\* args.get('threshold_hours', 1), line 95
ThresholdArgs == {Absent, Num(0), Num(2)}

\* ---- the XQL engine on the query of lines 16-23 ----
\* | filter hours_silent >= threshold
XqlFilter(rows, th) ==
    LET keep == {i \in 1..Len(rows) :
                    rows[i].hours_silent.t = "num" /\ rows[i].hours_silent.n >= th}
    IN  keep

\* | sort hours_silent desc: the kept rows in some non-increasing order of
\* hours_silent; the engine fixes no order among equal keys
XqlSilentResults(rows, th) ==
    LET keep == XqlFilter(rows, th)
        n == Cardinality(keep)
        perms == {p \in [1..n -> keep] :
                    /\ \A i, j \in 1..n : i # j => p[i] # p[j]
                    /\ \A i \in 1..n : i < n =>
                         rows[p[i]].hours_silent.n >= rows[p[i + 1]].hours_silent.n}
    IN  {[i \in 1..n |-> rows[p[i]]] : p \in perms}

\* lines 40-53, one row; `raises` when a strftime argument is not a number
RowRaises(row) ==
    \/ StrftimeRaises(PyGet(row.last_seen_time, Num(0)))
    \/ StrftimeRaises(PyGet(row.check_time, Num(0)))

DatasetInfo(row) ==
    [dataset |-> PyGet(row.dataset_name, None),
     last_seen |-> Strftime(PyGet(row.last_seen_time, Num(0))),
     last_seen_timestamp |-> PyGet(row.last_seen_time, Num(0)),
     hours_silent |-> PyGet(row.hours_silent, Num(0)),
     severity |-> PyGet(row.severity, Str("Unknown")),
     event_count |-> PyGet(row.event_count_last_hour, Num(0)),
     status |-> PyGet(row.status, Str("Unknown")),
     last_check |-> Strftime(PyGet(row.check_time, Num(0)))]

\* lines 38-56: the loop raises at the first bad row, else one report per row
FormatRaises(qr) ==
    \E i \in 1..Len(qr) : RowRaises(qr[i])
FormatRows(qr) ==
    [i \in 1..Len(qr) |-> DatasetInfo(qr[i])]

\* ---- verify_dataset_freshness, lines 61-90 ----
StaleVerdict == [is_fresh |-> FALSE, minutes_old |-> Num(999), last_update |-> None]

\* minutes_old of the row the freshness query returns
MinutesOld == {Absent, None, Num(0), Num(34), Num(35), Num(36), Num(1000)}

\* line 82: data[0].get('minutes_old', 999) < 35
FreshLimitInclusive(m) == m.n <= 35
FreshLimit(m) == m.n < 35

\* what executeCommand answers to the freshness query
FreshnessResponses ==
    {[kind |-> k, minutes_old |-> Absent, latest_check |-> Absent] :
        k \in UpstreamFailures \cup {"no_contents", "no_rows"}}
    \cup {[kind |-> "row", minutes_old |-> m, latest_check |-> c] :
        m \in MinutesOld, c \in {None, Num(7200)}}

NoResponse == [kind |-> "none", minutes_old |-> Absent, latest_check |-> Absent]

\* lines 74-87, the try block: it raises when executeCommand raises, when
\* Contents has no .get, and on None < 35; otherwise it returns a verdict
TryRaises(resp) ==
    \/ resp.kind \in {"throws", "no_contents"}
    \/ resp.kind = "row" /\ PyGet(resp.minutes_old, Num(999)).t # "num"
TryVerdict(resp) ==
    IF resp.kind = "row"
    THEN [is_fresh |-> FreshLimit(PyGet(resp.minutes_old, Num(999))),
          minutes_old |-> PyGet(resp.minutes_old, Num(999)),
          last_update |-> PyGet(resp.latest_check, None)]
    ELSE StaleVerdict      \* falsy or error-typed result, or no rows: line 87

\* line 89: the bare `except:` catches every exception of the try block
NarrowExceptCatches(resp) == resp.kind = "throws"
BareExceptCatches(resp) == TRUE

\* lines 61-90; `raised` says whether the call raises to its caller, and
\* line 90 is the verdict of a caught exception
verify_dataset_freshness(resp) ==
    [raised |-> TryRaises(resp) /\ ~BareExceptCatches(resp),
     verdict |-> IF TryRaises(resp) THEN StaleVerdict ELSE TryVerdict(resp)]

NoHealthResult ==
    [kind |-> "none", message |-> "", SilentDataSources |-> <<>>,
     DatasetFreshness |-> StaleVerdict]

\* return_error(message): an error entry, and the script ends
HealthError(msg) == [NoHealthResult EXCEPT !.kind = "error", !.message = msg]
\* an exception nobody catches ends the script with a traceback
HealthCrash == [NoHealthResult EXCEPT !.kind = "crash"]

InitHealth ==
    /\ h_pc = "start"
    /\ threshold_hours = 0
    /\ freshness = StaleVerdict
    /\ table = <<>>
    /\ issued = {}
    /\ fresh_resp = NoResponse
    /\ silent_resp = "none"
    /\ query_results = <<>>
    /\ silent_datasets = <<>>
    /\ h_result = NoHealthResult

\* main lines 94-98
VerifyFreshness ==
    /\ h_pc = "start"
    /\ \E a \in ThresholdArgs : threshold_hours' = PyGet(a, Num(1)).n
    /\ \E resp \in FreshnessResponses :
          /\ fresh_resp' = resp
          /\ IF verify_dataset_freshness(resp).raised
             THEN /\ h_result' = HealthCrash
                  /\ h_pc' = "done"
                  /\ UNCHANGED freshness
             ELSE /\ freshness' = verify_dataset_freshness(resp).verdict
                  /\ h_pc' = "gate"
                  /\ UNCHANGED h_result
    /\ issued' = issued \cup {"freshness"}
    /\ UNCHANGED <<table, silent_resp, query_results, silent_datasets, tvars>>

\* line 100: main goes on to line 104 only on a fresh verdict
GateOpen(verdict) == TRUE
Gate(verdict) == verdict.is_fresh

\* main lines 100-101: return_error ends the script
StaleHalt ==
    /\ h_pc = "gate"
    /\ ~freshness.is_fresh
    /\ h_result' = HealthError("Health dataset is stale")
    /\ h_pc' = "done"
    /\ UNCHANGED <<threshold_hours, freshness, table, issued, fresh_resp,
                   silent_resp, query_results, silent_datasets, tvars>>

\* main line 104 with check_health_dataset lines 25-56: the query answers
CheckHealth ==
    /\ h_pc = "gate"
    /\ Gate(freshness)
    /\ \E rows \in HealthTables :
          /\ table' = rows
          /\ \E qr \in XqlSilentResults(rows, threshold_hours) :
                /\ query_results' = qr
                /\ IF FormatRaises(qr)
                   THEN \* TypeError, caught on line 58, return_error on line 59
                        /\ h_result' = HealthError("Error checking health dataset")
                        /\ h_pc' = "done"
                        /\ UNCHANGED silent_datasets
                   ELSE /\ silent_datasets' = FormatRows(qr)
                        /\ h_pc' = "report"
                        /\ UNCHANGED h_result
    /\ issued' = issued \cup {"silent"}
    /\ silent_resp' = "ok"
    /\ UNCHANGED <<threshold_hours, freshness, fresh_resp, tvars>>

\* main line 104 with check_health_dataset lines 25-33 and 58-59: the query
\* fails.  An error-typed entry reaches return_error on line 33; a raised
\* exception, or the IndexError of results[0] on an empty list, reaches
\* return_error on line 59.
CheckHealthFails ==
    /\ h_pc = "gate"
    /\ Gate(freshness)
    /\ \E f \in UpstreamFailures :
          /\ silent_resp' = f
          /\ h_result' = HealthError(IF f = "error"
                                     THEN "Failed to query health dataset"
                                     ELSE "Error checking health dataset")
    /\ issued' = issued \cup {"silent"}
    /\ h_pc' = "done"
    /\ UNCHANGED <<threshold_hours, freshness, table, fresh_resp,
                   query_results, silent_datasets, tvars>>

\* main lines 107-126: return_outputs
ReturnOutputs ==
    /\ h_pc = "report"
    /\ h_result' = [kind |-> "outputs", message |-> "",
                    SilentDataSources |-> silent_datasets,
                    DatasetFreshness |-> freshness]
    /\ h_pc' = "done"
    /\ UNCHANGED <<threshold_hours, freshness, table, issued, fresh_resp,
                   silent_resp, query_results, silent_datasets, tvars>>

(***************************************************************************)
(* Specifications: one invocation of each script.                          *)
(***************************************************************************)
Init == InitTrends /\ InitHealth

NextTrends ==
    \/ QueryTrends
    \/ QueryTrendsFails
    \/ GroupByDataset
    \/ AnalyzeDataset
    \/ ReturnTrends

NextHealth ==
    \/ VerifyFreshness
    \/ StaleHalt
    \/ CheckHealth
    \/ CheckHealthFails
    \/ ReturnOutputs

SpecTrends == Init /\ [][NextTrends]_vars
SpecHealth == Init /\ [][NextHealth]_vars

(***************************************************************************)
(* Properties of GetDataSourceHealthTrends.py, checked under SpecTrends.   *)
(***************************************************************************)
Buckets(i) == dataset_trends[i].trends
NBuckets(i) == Len(dataset_trends[i].trends)

\* avg_hours_silent summed over buckets lo..hi of dataset i
RECURSIVE SilenceSum(_, _, _)
SilenceSum(i, lo, hi) ==
    IF lo > hi THEN 0
    ELSE Buckets(i)[hi].avg_hours_silent + SilenceSum(i, lo, hi - 1)

RecentSum(i) == SilenceSum(i, NBuckets(i) - Min(3, NBuckets(i)) + 1, NBuckets(i))
OlderSum(i) == SilenceSum(i, 1, NBuckets(i) - 3)

EntriesFor(list, i) ==
    {k \in 1..Len(list) : list[k].dataset = dataset_trends[i].name}
ReportedWorse(i) == EntriesFor(t_result.trending_worse, i) # {}
ReportedBetter(i) == EntriesFor(t_result.trending_better, i) # {}
Grouped == 1..Len(dataset_trends)
DistinctNames == {trend_data[k].dataset_name : k \in 1..Len(trend_data)}

\* C5: a dataset with 2 or 3 buckets is never classified: the invocation
\* completes normally, the dataset is in neither trending list and it is
\* counted in dataset_count, whatever its recent average.
C5_ShortHistoryUnclassified ==
    t_pc = "done" =>
        \A i \in Grouped :
            NBuckets(i) \in {2, 3} =>
                /\ t_result.kind = "outputs"
                /\ ~ReportedWorse(i)
                /\ ~ReportedBetter(i)
                /\ t_result.dataset_count = Cardinality(DistinctNames)

\* C6: older_avg = 0 is guarded: a dataset with at least 4 buckets whose
\* older buckets are all 0 never stops the invocation; it is reported worse
\* when its recent average is positive and in neither list when it is 0.
C6_ZeroOlderGuarded ==
    t_pc = "done" =>
        \A i \in Grouped :
            (NBuckets(i) >= 4 /\ OlderSum(i) = 0) =>
                /\ t_result.kind = "outputs"
                /\ RecentSum(i) > 0 => (ReportedWorse(i) /\ ~ReportedBetter(i))
                /\ RecentSum(i) = 0 => (~ReportedWorse(i) /\ ~ReportedBetter(i))

\* recent_avg > 1.5 * older_avg and recent_avg < 0.5 * older_avg for a
\* dataset with more than 3 buckets, in integers:
\* RecentSum/3 against (3/2 or 1/2) * OlderSum/(N-3)
Above150(i) == 2 * RecentSum(i) * (NBuckets(i) - 3) > 9 * OlderSum(i)
Below50(i) == 2 * RecentSum(i) * (NBuckets(i) - 3) < 3 * OlderSum(i)

FirstMatch(i) ==
    /\ ReportedWorse(i) <=> Above150(i)
    /\ ReportedBetter(i) <=> (~Above150(i) /\ Below50(i))
    /\ Cardinality(EntriesFor(t_result.trending_worse, i))
         + Cardinality(EntriesFor(t_result.trending_better, i)) <= 1

\* C7: every dataset whose older_avg is positive is classified by first
\* match with strict comparisons: worse iff recent_avg > 1.5 * older_avg,
\* else better iff recent_avg < 0.5 * older_avg, else in neither list; never
\* in both lists, never listed twice.
C7_FirstMatchClassification ==
    t_pc = "done" =>
        \A i \in Grouped :
            (NBuckets(i) >= 4 /\ OlderSum(i) > 0) =>
                t_result.kind = "outputs" /\ FirstMatch(i)

\* The classification of C7 in the results the invocation does return.
ReturnedClassification ==
    t_result.kind = "outputs" =>
        \A i \in Grouped :
            (NBuckets(i) >= 4 /\ OlderSum(i) > 0) => FirstMatch(i)

\* C9: for every input, dataset_count is the number of distinct
\* dataset_name values among the bucket rows, and a dataset with exactly one
\* bucket is in neither trending list.
C9_DatasetCount ==
    (t_pc = "done" /\ dataset_trends # <<>>) =>
        /\ t_result.kind = "outputs"
        /\ t_result.dataset_count = Cardinality(DistinctNames)
        /\ \A i \in Grouped :
              NBuckets(i) = 1 => (~ReportedWorse(i) /\ ~ReportedBetter(i))

\* dataset_count and the one-bucket datasets in the results that are returned.
ReturnedDatasetCount ==
    t_result.kind = "outputs" =>
        /\ t_result.dataset_count = Cardinality(DistinctNames)
        /\ \A i \in Grouped :
              NBuckets(i) = 1 => (~ReportedWorse(i) /\ ~ReportedBetter(i))

ProxyLogsEntry ==
    [dataset |-> "proxy_logs", recent_avg_silent |-> 600,
     older_avg_silent |-> 100, change_percent |-> 5000]

\* C10: for a dataset with N >= 2 buckets, recent_avg is the mean of
\* avg_hours_silent over the last min(3, N) buckets and, when N > 3,
\* older_avg the mean over the first N - 3; the two groups are disjoint and
\* cover the N buckets; buckets 1,1,1,1,8,9 give 6.00, 1.00, 500.0%, worse.
C10_RecentOlderAverages ==
    /\ (t_idx >= 1 /\ NBuckets(t_idx) >= 2) =>
          /\ recent_avg = Rat(RecentSum(t_idx), Min(3, NBuckets(t_idx)))
          /\ NBuckets(t_idx) > 3 =>
                older_avg = Rat(OlderSum(t_idx), NBuckets(t_idx) - 3)
    /\ \A i \in Grouped :
          NBuckets(i) >= 2 =>
             /\ OlderBuckets(Buckets(i)) \o RecentBuckets(Buckets(i)) = Buckets(i)
             /\ Len(RecentBuckets(Buckets(i))) = Min(3, NBuckets(i))
             /\ \A k \in EntriesFor(trending_worse, i) :
                   trending_worse[k].recent_avg_silent =
                       PyRound(Rat(RecentSum(i), Min(3, NBuckets(i))), 100)
    /\ (t_pc = "done" /\ trend_data = ProxyLogs) =>
          /\ t_result.kind = "outputs"
          /\ t_result.trending_worse = <<ProxyLogsEntry>>
          /\ t_result.trending_better = <<>>

\* the proxy_logs scenario has run to its result: six buckets, three recent
\* (sum 18) and three older (sum 3)
C10_Witness ==
    /\ t_pc = "done"
    /\ trend_data = ProxyLogs
    /\ t_idx = 1
    /\ recent_avg = Rat(18, 3)
    /\ older_avg = Rat(3, 3)
    /\ t_result.trending_worse = <<ProxyLogsEntry>>

(***************************************************************************)
(* Properties of CheckDataSrouceHealthDataset.py, checked under SpecHealth.*)
(***************************************************************************)
Verified == h_pc # "start"

\* C1: a gating failure (a verdict that is not fresh, or an error-typed or
\* failed upstream answer) ends the invocation as a terminal failure:
\* nothing runs after it, return_outputs is never called, no SilentDataSources
\* report is emitted, and on a verdict that is not fresh the silent-source
\* query is never issued.
C1_GatingFailureIsTerminal ==
    /\ (Verified /\ ~freshness.is_fresh) =>
          /\ "silent" \notin issued
          /\ h_result.kind # "outputs"
          /\ h_pc = "done" => h_result.kind = "error"
    /\ (Verified /\ fresh_resp.kind \in UpstreamFailures) => ~freshness.is_fresh
    /\ silent_resp \in UpstreamFailures =>
          (h_pc = "done" /\ h_result.kind = "error")
    /\ h_result.kind = "error" => (h_pc = "done" /\ ~ENABLED NextHealth)
    /\ h_result.kind = "outputs" => (freshness.is_fresh /\ silent_resp = "ok")

\* the freshness query answered 36 minutes and the invocation ended in the
\* staleness error without asking for the silent sources
C1_Witness ==
    /\ h_pc = "done"
    /\ fresh_resp.minutes_old = Num(36)
    /\ ~freshness.is_fresh
    /\ h_result = HealthError("Health dataset is stale")
    /\ issued = {"freshness"}

\* the records of the window that cross the threshold, in input order
RECURSIVE Crossing(_, _)
Crossing(rows, th) ==
    IF rows = <<>> THEN <<>>
    ELSE IF Head(rows).hours_silent.t = "num" /\ Head(rows).hours_silent.n >= th
         THEN <<Head(rows)>> \o Crossing(Tail(rows), th)
         ELSE Crossing(Tail(rows), th)

\* a stable sort by hours_silent descending: each row goes behind every row
\* already placed whose hours_silent is not smaller
RECURSIVE StableDesc(_, _)
StableDesc(rows, placed) ==
    IF rows = <<>> THEN placed
    ELSE LET row == Head(rows)
             ahead == {k \in 1..Len(placed) :
                          placed[k].hours_silent.n >= row.hours_silent.n}
             at == Cardinality(ahead)
         IN  StableDesc(Tail(rows),
                        SubSeq(placed, 1, at) \o <<row>>
                            \o SubSeq(placed, at + 1, Len(placed)))

ExpectedSilent == StableDesc(Crossing(table, threshold_hours), <<>>)

\* C2: the reports are exactly the records with hours_silent >=
\* threshold_hours, one report each, ordered by hours_silent descending with
\* ties in input order; no crossing record gives the empty sequence, not an
\* error.
C2_ExactFilterSorted ==
    (h_pc = "done" /\ silent_resp = "ok") =>
        /\ h_result.kind = "outputs"
        /\ Len(h_result.SilentDataSources) = Len(ExpectedSilent)
        /\ \A i \in 1..Len(ExpectedSilent) :
              /\ h_result.SilentDataSources[i].dataset = ExpectedSilent[i].dataset_name
              /\ h_result.SilentDataSources[i].hours_silent = ExpectedSilent[i].hours_silent
              /\ h_result.SilentDataSources[i].last_seen_timestamp =
                    PyGet(ExpectedSilent[i].last_seen_time, Num(0))

\* What the returned reports do satisfy: as many as the crossing records,
\* each the report of a crossing record, in non-increasing hours_silent.
ReturnedSilentReports ==
    h_result.kind = "outputs" =>
        LET reps == h_result.SilentDataSources
        IN  /\ Len(reps) = Len(Crossing(table, threshold_hours))
            /\ \A i \in 1..Len(reps) :
                  /\ reps[i].hours_silent.n >= threshold_hours
                  /\ i < Len(reps) =>
                        reps[i].hours_silent.n >= reps[i + 1].hours_silent.n

BadResponse(resp) ==
    \/ resp.kind \in UpstreamFailures \cup {"no_contents", "no_rows"}
    \/ resp.kind = "row" /\ resp.minutes_old = None

\* C3: verify_dataset_freshness never raises to main, and on no rows, on an
\* error-typed or empty result, on a raised upstream call and on a result
\* whose processing raises it returns {is_fresh: False, minutes_old: 999,
\* last_update: absent}.
C3_FreshnessNeverRaises ==
    Verified =>
        /\ h_result.kind # "crash"
        /\ BadResponse(fresh_resp) => freshness = StaleVerdict

\* the row came back with a null minutes_old, whose comparison raises, and
\* main holds the stale verdict
C3_Witness ==
    /\ h_pc = "gate"
    /\ fresh_resp.kind = "row"
    /\ fresh_resp.minutes_old = None
    /\ fresh_resp.latest_check = Num(7200)
    /\ freshness = StaleVerdict

\* C4: is_fresh is True iff the returned minutes_old is strictly below 35,
\* and a row without minutes_old gives minutes_old 999 and is_fresh False.
C4_FreshIffUnder35 ==
    Verified =>
        /\ freshness.minutes_old.t = "num"
        /\ freshness.is_fresh <=> freshness.minutes_old.n < 35
        /\ (fresh_resp.kind = "row" /\ fresh_resp.minutes_old = Absent) =>
              (freshness.minutes_old = Num(999) /\ ~freshness.is_fresh)

\* the row said exactly 35 minutes and the verdict is not fresh
C4_Witness ==
    /\ h_pc = "gate"
    /\ fresh_resp.minutes_old = Num(35)
    /\ freshness.minutes_old = Num(35)
    /\ ~freshness.is_fresh

Missing(v) == v.t \in {"absent", "null"}

\* C8: a row with a missing or malformed field (absent, or present with a
\* null) never aborts the batch: one report per row the query returned, 0
\* for missing timestamps and counts, "Unknown" for missing status and
\* severity.
C8_BadRowNeverAborts ==
    (h_pc = "done" /\ silent_resp = "ok") =>
        /\ h_result.kind = "outputs"
        /\ Len(h_result.SilentDataSources) = Len(query_results)
        /\ \A i \in 1..Len(query_results) :
              LET row == query_results[i]
                  rep == h_result.SilentDataSources[i]
              IN  /\ Missing(row.last_seen_time) => rep.last_seen_timestamp = Num(0)
                  /\ Missing(row.severity) => rep.severity = Str("Unknown")
                  /\ Missing(row.status) => rep.status = Str("Unknown")
                  /\ Missing(row.event_count_last_hour) => rep.event_count = Num(0)

\* What holds of rows whose fields are absent: the sentinels of lines 43-51.
AbsentFieldsDefaulted ==
    h_result.kind = "outputs" =>
        \A i \in 1..Len(query_results) :
            LET row == query_results[i]
                rep == h_result.SilentDataSources[i]
            IN  /\ row.last_seen_time = Absent => rep.last_seen_timestamp = Num(0)
                /\ row.severity = Absent => rep.severity = Str("Unknown")
                /\ row.status = Absent => rep.status = Str("Unknown")
                /\ row.event_count_last_hour = Absent => rep.event_count = Num(0)
====
